---- MODULE Spec2Model ----
(***************************************************************************)
(* Milkdrop code visualizer: the extension host side (extension.ts,        *)
(* VisualizationPanel) as a state machine, the webview script's visualizer *)
(* as far as it handles posted messages and key presses, and the           *)
(* ActivityAnalyzer class as an object whose methods are called from       *)
(* outside.                                                                *)
(*                                                                         *)
(* Numbers.  The five activity scalars are JavaScript numbers.  They are   *)
(* modelled as fixed-point integers in units of 1/Scale: the value v is    *)
(* the number v/Scale, a product or quotient is truncated to that unit.    *)
(* Times are integers in milliseconds, as Date.now() returns them.         *)
(***************************************************************************)
EXTENDS Integers, Sequences, FiniteSets, TLC

\* ------------------------------------------------------------- bounds
\* How many VisualizationPanel objects the toggle command may construct.
MaxPanels == 2
\* The clock stops at MaxTime milliseconds.
MaxTime == 5200
\* How many host events and commands are delivered in one behaviour of Spec.
MaxEvents == 3
\* The longest contentChanges list of one text-change event.
MaxChanges == 2
\* How many samples the calls of SpecKeystroke push into keystrokeBuffer.
MaxKeystrokeSamples == 11
\* How many samples the calls of SpecAnalyzer push into the two buffers.
MaxAnalyzerSamples == 3
\* How many posted messages may wait in SpecRenderer for the webviews.
MaxInbox == 3
\* How many times the clock advances in SpecBuffers.
MaxTypingSteps == 22

\* ------------------------------------------------------- fixed point
\* The square root of Scale, itself a whole number.
SqrtScale == 10 * 10

Scale == SqrtScale * SqrtScale

Min(a, b) == IF a <= b THEN a ELSE b

Max(a, b) == IF a >= b THEN a ELSE b

\* The decimal literal n/d.
Dec(n, d) == (n * Scale) \div d

\* The product of two fixed-point numbers.
Mul(a, b) == (a * b) \div Scale

\* The largest r in lo..hi-1 with r * r <= m, by bisection.
RECURSIVE ISqrt(_, _, _)
ISqrt(m, lo, hi) ==
    IF hi - lo <= 1 THEN lo
    ELSE LET mid == (lo + hi) \div 2
         IN  IF mid * mid <= m THEN ISqrt(m, mid, hi) ELSE ISqrt(m, lo, mid)

\* Math.sqrt of the whole number n, as a fixed-point number (to 1/SqrtScale).
Sqrt(n) == ISqrt(n * Scale, 0, 46341) * SqrtScale

\* -------------------------------------------------- program constants
\* setInterval period of startActivityAnalysis, in ms.
TickInterval == 100
\* Decay starts when more than this many ms passed since lastActivity.
DecayAfter == 1000
\* Focus rises while fewer than this many ms passed since lastActivity.
FocusWindow == 5000
\* Length kept of activityHistory.
ActivityHistoryCap == 20
\* Length kept of cursorPositions.
CursorPositionsCap == 10
\* Number of presets of nextPreset / prevPreset.
PresetCount == 5
\* Length kept of ActivityAnalyzer.keystrokeBuffer.
KeystrokeBufferCap == 10
\* Age in ms at which analyzeCursorFlow drops a sample of cursorMovements.
CursorWindow == 2000

One == Scale

\* ------------------------------------------------------------ inputs
\* Clock advances between two callbacks, in ms.
TimeSteps == {DecayAfter, FocusWindow - DecayAfter}

\* One element of TextDocumentChangeEvent.contentChanges; text is kept as
\* its length, the only thing the panel reads of it.
ContentChanges ==
    { [textLength |-> 0, rangeLength |-> 1, line |-> 0, character |-> 1],
      [textLength |-> 8, rangeLength |-> 0, line |-> 1, character |-> 0] }

RECURSIVE SeqsUpTo(_, _)
SeqsUpTo(S, n) ==
    IF n = 0 THEN {<<>>}
    ELSE LET shorter == SeqsUpTo(S, n - 1)
         IN  shorter \cup {Append(q, x) : q \in shorter, x \in S}

\* The time between two text changes of the steady typist of SpecBuffers.
TypingInterval == 4

\* A multi-cursor edit: one character typed on each of lines 0 .. 20.
MultiCursorEdit ==
    [i \in 1 .. 21 |-> [textLength |-> 1, rangeLength |-> 0, line |-> i - 1, character |-> 0]]

ChangeLists == SeqsUpTo(ContentChanges, MaxChanges) \cup {MultiCursorEdit}

\* selections[0] of a TextEditorSelectionChangeEvent.
Selections ==
    { [line |-> 0, character |-> 0, startCharacter |-> 0, endCharacter |-> 0, isEmpty |-> TRUE],
      [line |-> 120, character |-> 90, startCharacter |-> 96, endCharacter |-> 90, isEmpty |-> FALSE] }

Panels == 1 .. MaxPanels

\* Arguments of analyzeKeystrokeIntensity: 0, 15 or 30 chars per second.
KeystrokeChars == {0, 15}
KeystrokeDeltas == {0, CursorWindow \div 4, CursorWindow \div 2}

\* Arguments of analyzeCursorFlow: distances 0, 5, 145 and 150 apart.
CursorPoints == { [x |-> 0, y |-> 0], [x |-> 3, y |-> 4], [x |-> 90, y |-> 120] }

\* Clock advances between two calls of analyzeCursorFlow, in ms.
AnalyzerTimeSteps == {CursorWindow \div 2}

\* Arguments of analyzeChaos, analyzeHeat and analyzeFocus.
SimultaneousEdits == {0, 2, 5}
LinesModifiedCounts == {0, 1, 2, 5}
TotalLinesCounts == {0, 10}
TimesInEditor == {0, 30000, 90000}
EditorSwitches == {0, 3, 8}

\* -------------------------------------------------------------- state
VARIABLES
    now,                \* Date.now()
    events,             \* host events and commands delivered so far
    visualizationPanel, \* extension.ts: the module variable; 0 is undefined
    deactivated,        \* deactivate() has run
    milkdropActive,     \* the 'milkdropActive' context key
    nPanels,            \* VisualizationPanel objects constructed so far
    activity,           \* per panel: this.activity
    activityHistory,    \* per panel: this.activityHistory
    cursorPositions,    \* per panel: this.cursorPositions
    currentPreset,      \* per panel: this.currentPreset
    panelDisposed,      \* per panel: the host's WebviewPanel is disposed
    subscribed,         \* per panel: the three listeners of this.disposables are registered
    nextTick,           \* per panel: earliest time of the next setInterval callback
    sent,               \* messages the webviews accepted from the last callback
    keystrokeBuffer,    \* an ActivityAnalyzer object: this.keystrokeBuffer
    cursorMovements,    \* the same object: this.cursorMovements
    calls,              \* samples its method calls have pushed into the two buffers
    returned,           \* the method called last on that object, and what it returned
    rendererActivity,   \* per panel: this.activity of the webview's visualizer
    rendererPreset,     \* per panel: this.currentPreset of the webview's visualizer
    inbox               \* messages posted to the webviews and not yet handled there

\* The ActivityAnalyzer object.  No code of the extension constructs one, so
\* no action of the extension host touches it.
analyzer == <<keystrokeBuffer, cursorMovements, calls, returned>>

\* The WebGLMilkdropVisualizer objects of the webviews and the messages on
\* their way to them.
webview == <<rendererActivity, rendererPreset, inbox>>

\* The extension host, the clock left out.
host == <<events, visualizationPanel, deactivated, milkdropActive, nPanels,
          activity, activityHistory, cursorPositions, currentPreset,
          panelDisposed, subscribed, nextTick, sent>>

vars == <<now, events, visualizationPanel, deactivated, milkdropActive, nPanels,
          activity, activityHistory, cursorPositions, currentPreset,
          panelDisposed, subscribed, nextTick, sent,
          keystrokeBuffer, cursorMovements, calls, returned,
          rendererActivity, rendererPreset, inbox>>

\* ------------------------------------------------------ VisualizationPanel
\* constructor: the initial EditorActivity.
NewActivity(t) ==
    [intensity |-> 0, focus |-> 0, chaos |-> 0, heat |-> 0, cursorFlow |-> 0,
     lastActivity |-> t]

RECURSIVE SumSeq(_)
SumSeq(q) == IF q = <<>> THEN 0 ELSE Head(q) + SumSeq(Tail(q))

\* push(x), then shift() when longer than cap.
\* Mutant of PushCapped: a full buffer drops the new entry.
PushCapped_DropsNewest(q, x, cap) ==
    LET r == Append(q, x) IN IF Len(r) > cap THEN SubSeq(r, 1, cap) ELSE r

PushCapped(q, x, cap) ==
    LET r == Append(q, x) IN IF Len(r) > cap THEN Tail(r) ELSE r

\* chars / (timeDelta / 1000)
CharsPerSecond(chars, timeDelta) == (chars * 1000 * Scale) \div timeDelta

\* updateIntensity: this.activityHistory afterwards.
UpdateIntensityHistory(hist, chars, timeDelta) ==
    IF timeDelta > 0
    THEN PushCapped(hist, CharsPerSecond(chars, timeDelta), ActivityHistoryCap)
    ELSE hist

\* Mutant of UpdateIntensity: the Math.min is missing.
UpdateIntensity_Unclamped(intensity, hist, chars, timeDelta) ==
    IF timeDelta > 0
    THEN LET h == PushCapped(hist, CharsPerSecond(chars, timeDelta), ActivityHistoryCap)
         IN  (SumSeq(h) \div Len(h)) \div 10
    ELSE intensity

\* Mutant of UpdateIntensity: a zero elapsed time resets the intensity.
UpdateIntensity_ZeroWhenNoTime(intensity, hist, chars, timeDelta) ==
    IF timeDelta > 0
    THEN LET h == PushCapped(hist, CharsPerSecond(chars, timeDelta), ActivityHistoryCap)
         IN  Min((SumSeq(h) \div Len(h)) \div 10, One)
    ELSE 0

\* updateIntensity: this.activity.intensity afterwards.
UpdateIntensity(intensity, hist, chars, timeDelta) ==
    IF timeDelta > 0
    THEN LET h == UpdateIntensityHistory(hist, chars, timeDelta)
             avgIntensity == SumSeq(h) \div Len(h)
         IN  Min(avgIntensity \div 10, One)
    ELSE intensity

\* totalChars of analyzeTextChanges.
RECURSIVE TotalChars(_)
TotalChars(changes) ==
    IF changes = <<>> THEN 0 ELSE Head(changes).textLength + TotalChars(Tail(changes))

\* linesModified of analyzeTextChanges: the set of start lines.
LinesModified(changes) == {changes[i].line : i \in 1 .. Len(changes)}

\* Mutant of AnalyzeTextChangesActivity: heat counts change events, not lines.
AnalyzeTextChangesActivity_HeatPerChange(a, hist, changes, t) ==
    LET timeDelta == t - a.lastActivity
    IN  [a EXCEPT
            !.lastActivity = t,
            !.intensity = UpdateIntensity(a.intensity, hist, TotalChars(changes), timeDelta),
            !.chaos = Min(a.chaos + Len(changes) * Dec(1, 10), One),
            !.heat = Min(a.heat + Len(changes) * Dec(5, 100), One)]

\* analyzeTextChanges: this.activity afterwards, the callback running at time t.
AnalyzeTextChangesActivity(a, hist, changes, t) ==
    LET timeDelta == t - a.lastActivity
    IN  [a EXCEPT
            !.lastActivity = t,
            !.intensity = UpdateIntensity(a.intensity, hist, TotalChars(changes), timeDelta),
            !.chaos = Min(a.chaos + Len(changes) * Dec(1, 10), One),
            !.heat = Min(a.heat + Cardinality(LinesModified(changes)) * Dec(5, 100), One)]

\* analyzeTextChanges: the 'keystroke' event of one change.
KeystrokeEvent(change) ==
    [type |-> "keystroke",
     data |-> [text |-> change.textLength,
               rangeLength |-> change.rangeLength,
               line |-> change.line,
               character |-> change.character,
               isInsertion |-> (change.rangeLength = 0),
               isDeletion |-> (change.textLength = 0)]]

\* Mutant of KeystrokeEvents: the newest change is announced first.
KeystrokeEvents_Reversed(changes) ==
    [i \in 1 .. Len(changes) |-> KeystrokeEvent(changes[Len(changes) + 1 - i])]

KeystrokeEvents(changes) == [i \in 1 .. Len(changes) |-> KeystrokeEvent(changes[i])]

\* sendActivityUpdate: the 'activity' event.
ActivityEvent(a) == [type |-> "activity", data |-> a]

\* analyzeCursorMovement: newPos.
NewPos(selection, t) == [x |-> selection.character, y |-> selection.line, time |-> t]

\* Mutant of CursorFlowAfter: the speed is normalized to [0,1] before it is added.
CursorFlowAfter_Normalized(cursorFlow, positions, selection, t) ==
    IF Len(positions) > 0
    THEN LET lastPos == positions[Len(positions)]
             dx == selection.character - lastPos.x
             dy == selection.line - lastPos.y
             timeDelta == t - lastPos.time
         IN  IF timeDelta > 0
             THEN LET speed == (Sqrt(dx * dx + dy * dy) * 1000) \div timeDelta
                  IN  Min(cursorFlow + Mul(Min(speed \div 100, One), Dec(1, 100)), One)
             ELSE cursorFlow
    ELSE cursorFlow

\* analyzeCursorMovement: this.activity.cursorFlow afterwards.
CursorFlowAfter(cursorFlow, positions, selection, t) ==
    IF Len(positions) > 0
    THEN LET lastPos == positions[Len(positions)]
             newPos == NewPos(selection, t)
             dx == newPos.x - lastPos.x
             dy == newPos.y - lastPos.y
             distance == Sqrt(dx * dx + dy * dy)
             timeDelta == t - lastPos.time
         IN  IF timeDelta > 0
             THEN LET speed == (distance * 1000) \div timeDelta
                  IN  Min(cursorFlow + Mul(speed, Dec(1, 100)), One)
             ELSE cursorFlow
    ELSE cursorFlow

\* analyzeCursorMovement: the 'cursor' event.
CursorEvent(selection) ==
    [type |-> "cursor",
     data |-> [line |-> selection.line,
               character |-> selection.character,
               selectionLength |->
                   IF selection.endCharacter >= selection.startCharacter
                   THEN selection.endCharacter - selection.startCharacter
                   ELSE selection.startCharacter - selection.endCharacter,
               hasSelection |-> ~selection.isEmpty]]

\* The onDidChangeActiveTextEditor listener: this.activity.focus afterwards.
FocusAfterEditorChange(focus) == Min(focus + Dec(2, 10), One)

\* Mutant of DecayActivity: heat decays at the rate of chaos.
DecayActivity_HeatLikeChaos(a, timeSinceActivity) ==
    IF timeSinceActivity > DecayAfter
    THEN [a EXCEPT !.intensity = Mul(@, Dec(95, 100)),
                   !.chaos = Mul(@, Dec(98, 100)),
                   !.heat = Mul(@, Dec(98, 100)),
                   !.cursorFlow = Mul(@, Dec(97, 100))]
    ELSE a

\* The setInterval callback of startActivityAnalysis: the decay.
DecayActivity(a, timeSinceActivity) ==
    IF timeSinceActivity > DecayAfter
    THEN [a EXCEPT !.intensity = Mul(@, Dec(95, 100)),
                   !.chaos = Mul(@, Dec(98, 100)),
                   !.heat = Mul(@, Dec(99, 100)),
                   !.cursorFlow = Mul(@, Dec(97, 100))]
    ELSE a

\* Mutant of FocusAfterTick: focus still rises at exactly FocusWindow ms.
FocusAfterTick_Inclusive(focus, timeSinceActivity) ==
    IF timeSinceActivity <= FocusWindow
    THEN Min(focus + Dec(1, 100), One)
    ELSE Mul(focus, Dec(995, 1000))

\* The setInterval callback of startActivityAnalysis: the focus update.
FocusAfterTick(focus, timeSinceActivity) ==
    IF timeSinceActivity < FocusWindow
    THEN Min(focus + Dec(1, 100), One)
    ELSE Mul(focus, Dec(995, 1000))

\* The setInterval callback of startActivityAnalysis: this.activity afterwards.
TickActivity(a, t) ==
    LET timeSinceActivity == t - a.lastActivity
        decayed == DecayActivity(a, timeSinceActivity)
    IN  [decayed EXCEPT !.focus = FocusAfterTick(@, timeSinceActivity)]

\* nextPreset / prevPreset: this.currentPreset afterwards.
\* Mutant of NextPresetIndex: the % 5 is missing.
NextPresetIndex_NoWrap(i) == i + 1

NextPresetIndex(i) == (i + 1) % PresetCount

\* Mutant of PrevPresetIndex: the + 5 is missing; in JavaScript -1 % 5 is -1.
PrevPresetIndex_NoWrap(i) == IF i = 0 THEN 0 - 1 ELSE i - 1

PrevPresetIndex(i) == (i - 1 + PresetCount) % PresetCount

PresetEvent(i) == [type |-> "preset", data |-> [preset |-> i]]

\* sendVisualizationEvent for each event of evs in turn: what panel p's
\* webview receives.  this.panel.webview of a disposed WebviewPanel accepts
\* no message.
SendVisualizationEvents(p, evs) ==
    IF panelDisposed[p]
    THEN <<>>
    ELSE [i \in 1 .. Len(evs) |-> [panel |-> p, type |-> evs[i].type, data |-> evs[i].data]]

\* Mutant of DisposeEffect: this.disposables are not disposed.
DisposeEffect_KeepsListeners(p) ==
    /\ panelDisposed' = [panelDisposed EXCEPT ![p] = TRUE]
    /\ milkdropActive' = FALSE
    /\ UNCHANGED subscribed

\* dispose(): the WebviewPanel and the three listeners are disposed; the
\* interval of startActivityAnalysis is not touched.  panel.dispose() fires
\* onDidDispose, whose handler runs dispose() again, to the same effect.
DisposeEffect(p) ==
    /\ panelDisposed' = [panelDisposed EXCEPT ![p] = TRUE]
    /\ subscribed' = [subscribed EXCEPT ![p] = FALSE]
    /\ milkdropActive' = FALSE

\* ------------------------------------------------- WebGLMilkdropVisualizer
\* constructor: this.activity of the visualizer the webview script creates.
NewRendererActivity == [intensity |-> 0, focus |-> 0, chaos |-> 0, heat |-> 0, cursorFlow |-> 0]

\* handleVisualizationEvent: a visualizer whose activity is a and whose
\* currentPreset is preset, after it has handled event.
HandleVisualizationEvent(a, preset, event) ==
    CASE event.type = "activity" -> [activity |-> event.data, currentPreset |-> preset]
      [] event.type = "preset" -> [activity |-> a, currentPreset |-> event.data.preset]
      [] event.type = "keystroke" ->
             [activity |-> [a EXCEPT !.intensity = Min(@ + Dec(1, 10), One)],
              currentPreset |-> preset]
      [] event.type = "cursor" ->
             [activity |-> [a EXCEPT !.cursorFlow = Min(@ + Dec(5, 100), One)],
              currentPreset |-> preset]
      [] OTHER -> [activity |-> a, currentPreset |-> preset]

\* ------------------------------------------------------ ActivityAnalyzer
\* analyzeKeystrokeIntensity: weightedSum / totalWeight of the buffer, the
\* sample at 0-based position i weighing (i + 1) / N.  The common factor 1/N
\* cancels in the quotient, which is rounded once.
RECURSIVE WeightedSum(_, _)
WeightedSum(buffer, i) ==
    IF i > Len(buffer) THEN 0 ELSE buffer[i] * i + WeightedSum(buffer, i + 1)

\* Mutant of WeightedAverage: every sample weighs the same.
WeightedAverage_Unweighted(buffer) == SumSeq(buffer) \div Len(buffer)

WeightedAverage(buffer) ==
    WeightedSum(buffer, 1) \div ((Len(buffer) * (Len(buffer) + 1)) \div 2)

\* Mutant of KeystrokeBufferAfter: a full buffer refuses the new sample.
KeystrokeBufferAfter_DropsNewest(buffer, chars, timeDelta) ==
    IF timeDelta = 0 \/ Len(buffer) >= KeystrokeBufferCap
    THEN buffer
    ELSE Append(buffer, CharsPerSecond(chars, timeDelta))

\* analyzeKeystrokeIntensity: keystrokeBuffer afterwards.
KeystrokeBufferAfter(buffer, chars, timeDelta) ==
    IF timeDelta = 0
    THEN buffer
    ELSE PushCapped(buffer, CharsPerSecond(chars, timeDelta), KeystrokeBufferCap)

\* Mutant of AnalyzeKeystrokeIntensity: an elapsed time of 0 counts as one
\* second instead of returning early.
AnalyzeKeystrokeIntensity_NoEarlyReturn(buffer, chars, timeDelta) ==
    LET sample == IF timeDelta = 0 THEN chars * Scale ELSE CharsPerSecond(chars, timeDelta)
    IN  Min(WeightedAverage(PushCapped(buffer, sample, KeystrokeBufferCap)) \div 15, One)

\* analyzeKeystrokeIntensity: the value returned.
AnalyzeKeystrokeIntensity(buffer, chars, timeDelta) ==
    IF timeDelta = 0
    THEN 0
    ELSE Min(WeightedAverage(KeystrokeBufferAfter(buffer, chars, timeDelta)) \div 15, One)

\* Mutant of CursorMovementsAfter: the filter is missing.
CursorMovementsAfter_NoFilter(movements, newX, newY, t) ==
    Append(movements, [x |-> newX, y |-> newY, time |-> t])

\* analyzeCursorFlow: cursorMovements after the push and the filter.
CursorMovementsAfter(movements, newX, newY, t) ==
    SelectSeq(Append(movements, [x |-> newX, y |-> newY, time |-> t]),
              LAMBDA m : m.time > t - CursorWindow)

\* analyzeCursorFlow: totalDistance and totalTime over consecutive samples.
RECURSIVE TotalDistance(_, _)
TotalDistance(movements, i) ==
    IF i > Len(movements) THEN 0
    ELSE LET dx == movements[i].x - movements[i - 1].x
             dy == movements[i].y - movements[i - 1].y
         IN  Sqrt(dx * dx + dy * dy) + TotalDistance(movements, i + 1)

RECURSIVE TotalTime(_, _)
TotalTime(movements, i) ==
    IF i > Len(movements) THEN 0
    ELSE (movements[i].time - movements[i - 1].time) + TotalTime(movements, i + 1)

\* Mutant of AnalyzeCursorFlow: the totalTime === 0 return is missing, so
\* the division by 0 gives Infinity and Math.min(Infinity, 1.0) gives 1.
AnalyzeCursorFlow_NoTimeGuard(movements, newX, newY, t) ==
    LET ms == CursorMovementsAfter(movements, newX, newY, t)
    IN  IF Len(ms) < 2 THEN 0
        ELSE IF TotalTime(ms, 2) = 0 THEN One
        ELSE Min((TotalDistance(ms, 2) * 10) \div TotalTime(ms, 2), One)

\* analyzeCursorFlow: the value returned.  averageSpeed / 100 is
\* totalDistance / (totalTime / 1000) / 100, computed as one quotient.
AnalyzeCursorFlow(movements, newX, newY, t) ==
    LET ms == CursorMovementsAfter(movements, newX, newY, t)
    IN  IF Len(ms) < 2 THEN 0
        ELSE IF TotalTime(ms, 2) = 0 THEN 0
        ELSE Min((TotalDistance(ms, 2) * 10) \div TotalTime(ms, 2), One)

\* Mutant of AnalyzeChaos: the Math.min is missing.
AnalyzeChaos_Unclamped(simultaneousEdits, rapidChanges) ==
    simultaneousEdits * Dec(2, 10) + (IF rapidChanges THEN Dec(3, 10) ELSE 0)

\* analyzeChaos: the value returned.
AnalyzeChaos(simultaneousEdits, rapidChanges) ==
    Min(simultaneousEdits * Dec(2, 10) + (IF rapidChanges THEN Dec(3, 10) ELSE 0), One)

\* Mutant of AnalyzeHeat: the totalLines === 0 return is missing, so the
\* ratio is taken over Math.max(0, 1).
AnalyzeHeat_NoZeroGuard(linesModified, totalLines) ==
    Min(((linesModified * Scale) \div Max(totalLines, 1)) * 5, One)

\* analyzeHeat: the value returned.
AnalyzeHeat(linesModified, totalLines) ==
    IF totalLines = 0 THEN 0
    ELSE LET modificationRatio == (linesModified * Scale) \div Max(totalLines, 1)
         IN  Min(modificationRatio * 5, One)

\* Mutant of AnalyzeFocus: the switch penalty is not capped at 0.5.
AnalyzeFocus_UncappedPenalty(timeInEditor, editorSwitches) ==
    Max(Min((timeInEditor * Scale) \div 60000, One) - editorSwitches * Dec(1, 10), 0)

\* Mutant of AnalyzeFocus: the Math.max(..., 0) floor is missing.
AnalyzeFocus_NoFloor(timeInEditor, editorSwitches) ==
    Min((timeInEditor * Scale) \div 60000, One) - Min(editorSwitches * Dec(1, 10), Dec(5, 10))

\* analyzeFocus: the value returned.
AnalyzeFocus(timeInEditor, editorSwitches) ==
    LET focus == Min((timeInEditor * Scale) \div 60000, One)
        switchPenalty == Min(editorSwitches * Dec(1, 10), Dec(5, 10))
    IN  Max(focus - switchPenalty, 0)

\* ------------------------------------------------------------- Init
Init ==
    /\ now = 0
    /\ events = 0
    /\ visualizationPanel = 0
    /\ deactivated = FALSE
    /\ milkdropActive = FALSE
    /\ nPanels = 0
    /\ activity = [p \in Panels |-> NewActivity(0)]
    /\ activityHistory = [p \in Panels |-> <<>>]
    /\ cursorPositions = [p \in Panels |-> <<>>]
    /\ currentPreset = [p \in Panels |-> 0]
    /\ panelDisposed = [p \in Panels |-> FALSE]
    /\ subscribed = [p \in Panels |-> FALSE]
    /\ nextTick = [p \in Panels |-> 0]
    /\ sent = <<>>
    /\ keystrokeBuffer = <<>>
    /\ cursorMovements = <<>>
    /\ calls = 0
    /\ returned = [method |-> "none", value |-> 0]
    /\ rendererActivity = [p \in Panels |-> NewRendererActivity]
    /\ rendererPreset = [p \in Panels |-> 0]
    /\ inbox = <<>>

\* ---------------------------------------------------------- actions
\* The clock advances between two callbacks; an interval callback that is
\* due runs first.
Advance(d) ==
    /\ now + d <= MaxTime
    /\ \A p \in 1 .. nPanels : now < nextTick[p]
    /\ now' = now + d
    /\ sent' = <<>>
    /\ UNCHANGED <<visualizationPanel, deactivated, milkdropActive, nPanels,
                   activity, activityHistory, cursorPositions, currentPreset,
                   panelDisposed, subscribed, nextTick>>

\* milkdrop-visualizer.toggle with no panel: new VisualizationPanel(...).
ToggleOn ==
    /\ ~deactivated
    /\ visualizationPanel = 0
    /\ nPanels < MaxPanels
    /\ LET p == nPanels + 1
       IN  /\ nPanels' = p
           /\ visualizationPanel' = p
           /\ activity' = [activity EXCEPT ![p] = NewActivity(now)]
           /\ activityHistory' = [activityHistory EXCEPT ![p] = <<>>]
           /\ cursorPositions' = [cursorPositions EXCEPT ![p] = <<>>]
           /\ currentPreset' = [currentPreset EXCEPT ![p] = 0]
           /\ panelDisposed' = [panelDisposed EXCEPT ![p] = FALSE]
           /\ subscribed' = [subscribed EXCEPT ![p] = TRUE]
           /\ nextTick' = [nextTick EXCEPT ![p] = now + TickInterval]
    /\ milkdropActive' = TRUE
    /\ sent' = <<>>
    /\ UNCHANGED <<now, deactivated>>

\* Mutant of ToggleOff: the panel is forgotten without being disposed.
ToggleOff_KeepsPanel ==
    /\ ~deactivated
    /\ visualizationPanel # 0
    /\ visualizationPanel' = 0
    /\ milkdropActive' = FALSE
    /\ sent' = <<>>
    /\ UNCHANGED <<now, deactivated, nPanels, activity, activityHistory,
                   cursorPositions, currentPreset, nextTick, panelDisposed, subscribed>>

\* milkdrop-visualizer.toggle with a panel: dispose it and forget it.
ToggleOff ==
    /\ ~deactivated
    /\ visualizationPanel # 0
    /\ DisposeEffect(visualizationPanel)
    /\ visualizationPanel' = 0
    /\ sent' = <<>>
    /\ UNCHANGED <<now, deactivated, nPanels, activity, activityHistory,
                   cursorPositions, currentPreset, nextTick>>

\* deactivate(): dispose the panel, if any; the variable keeps it.
Deactivate ==
    /\ ~deactivated
    /\ deactivated' = TRUE
    /\ IF visualizationPanel # 0
       THEN DisposeEffect(visualizationPanel)
       ELSE UNCHANGED <<panelDisposed, subscribed, milkdropActive>>
    /\ sent' = <<>>
    /\ UNCHANGED <<now, visualizationPanel, nPanels, activity, activityHistory,
                   cursorPositions, currentPreset, nextTick>>

\* The user closes the webview panel: the host disposes it and fires
\* onDidDispose, whose handler runs dispose().
UserClose(p) ==
    /\ p <= nPanels
    /\ ~panelDisposed[p]
    /\ DisposeEffect(p)
    /\ sent' = <<>>
    /\ UNCHANGED <<now, visualizationPanel, deactivated, nPanels, activity,
                   activityHistory, cursorPositions, currentPreset, nextTick>>

\* Mutant of OnDidChangeTextDocument: the document is not compared with the
\* active editor's.
OnDidChangeTextDocument_NoActiveCheck(p, isActive, changes) ==
    /\ p <= nPanels
    /\ subscribed[p]
    /\ UNCHANGED <<now, visualizationPanel, deactivated, milkdropActive, nPanels,
                   cursorPositions, currentPreset, panelDisposed, subscribed, nextTick>>
    /\ activity' = [activity EXCEPT ![p] =
           AnalyzeTextChangesActivity(@, activityHistory[p], changes, now)]
    /\ activityHistory' = [activityHistory EXCEPT ![p] =
           UpdateIntensityHistory(@, TotalChars(changes), now - activity[p].lastActivity)]
    /\ sent' = SendVisualizationEvents(p,
           KeystrokeEvents(changes) \o <<ActivityEvent(activity'[p])>>)

\* The onDidChangeTextDocument listener of panel p, for an event whose
\* document is (isActive) or is not the active editor's document.
OnDidChangeTextDocument(p, isActive, changes) ==
    /\ p <= nPanels
    /\ subscribed[p]
    /\ UNCHANGED <<now, visualizationPanel, deactivated, milkdropActive, nPanels,
                   cursorPositions, currentPreset, panelDisposed, subscribed, nextTick>>
    /\ IF isActive
       THEN /\ activity' = [activity EXCEPT ![p] =
                   AnalyzeTextChangesActivity(@, activityHistory[p], changes, now)]
            /\ activityHistory' = [activityHistory EXCEPT ![p] =
                   UpdateIntensityHistory(@, TotalChars(changes), now - activity[p].lastActivity)]
            /\ sent' = SendVisualizationEvents(p,
                   KeystrokeEvents(changes) \o <<ActivityEvent(activity'[p])>>)
       ELSE /\ sent' = <<>>
            /\ UNCHANGED <<activity, activityHistory>>

\* Mutant of OnDidChangeTextEditorSelection: a cursor move counts as activity.
OnDidChangeTextEditorSelection_IsActivity(p, selection) ==
    /\ p <= nPanels
    /\ subscribed[p]
    /\ activity' = [activity EXCEPT ![p].cursorFlow =
                                        CursorFlowAfter(@, cursorPositions[p], selection, now),
                                    ![p].lastActivity = now]
    /\ cursorPositions' = [cursorPositions EXCEPT ![p] =
           PushCapped(@, NewPos(selection, now), CursorPositionsCap)]
    /\ sent' = SendVisualizationEvents(p,
           <<CursorEvent(selection), ActivityEvent(activity'[p])>>)
    /\ UNCHANGED <<now, visualizationPanel, deactivated, milkdropActive, nPanels,
                   activityHistory, currentPreset, panelDisposed, subscribed, nextTick>>

\* The onDidChangeTextEditorSelection listener of panel p: analyzeCursorMovement.
OnDidChangeTextEditorSelection(p, selection) ==
    /\ p <= nPanels
    /\ subscribed[p]
    /\ activity' = [activity EXCEPT ![p].cursorFlow =
           CursorFlowAfter(@, cursorPositions[p], selection, now)]
    /\ cursorPositions' = [cursorPositions EXCEPT ![p] =
           PushCapped(@, NewPos(selection, now), CursorPositionsCap)]
    /\ sent' = SendVisualizationEvents(p,
           <<CursorEvent(selection), ActivityEvent(activity'[p])>>)
    /\ UNCHANGED <<now, visualizationPanel, deactivated, milkdropActive, nPanels,
                   activityHistory, currentPreset, panelDisposed, subscribed, nextTick>>

\* Mutant of OnDidChangeActiveTextEditor: an editor change counts as activity.
OnDidChangeActiveTextEditor_IsActivity(p) ==
    /\ p <= nPanels
    /\ subscribed[p]
    /\ activity' = [activity EXCEPT ![p].focus = Min(@ + Dec(2, 10), One),
                                    ![p].lastActivity = now]
    /\ sent' = <<>>
    /\ UNCHANGED <<now, visualizationPanel, deactivated, milkdropActive, nPanels,
                   activityHistory, cursorPositions, currentPreset, panelDisposed,
                   subscribed, nextTick>>

\* The onDidChangeActiveTextEditor listener of panel p.
OnDidChangeActiveTextEditor(p) ==
    /\ p <= nPanels
    /\ subscribed[p]
    /\ activity' = [activity EXCEPT ![p].focus = FocusAfterEditorChange(@)]
    /\ sent' = <<>>
    /\ UNCHANGED <<now, visualizationPanel, deactivated, milkdropActive, nPanels,
                   activityHistory, cursorPositions, currentPreset, panelDisposed,
                   subscribed, nextTick>>

\* Mutant of Tick: the vector is published before it is updated.
Tick_PublishesFirst(p) ==
    /\ p <= nPanels
    /\ now >= nextTick[p]
    /\ nextTick' = [nextTick EXCEPT ![p] = now + TickInterval]
    /\ activity' = [activity EXCEPT ![p] = TickActivity(@, now)]
    /\ sent' = SendVisualizationEvents(p, <<ActivityEvent(activity[p])>>)
    /\ UNCHANGED <<now, visualizationPanel, deactivated, milkdropActive, nPanels,
                   activityHistory, cursorPositions, currentPreset, panelDisposed,
                   subscribed>>

\* The setInterval callback of panel p.  Nothing clears the interval, so it
\* runs for every constructed panel, disposed or not.
Tick(p) ==
    /\ p <= nPanels
    /\ now >= nextTick[p]
    /\ nextTick' = [nextTick EXCEPT ![p] = now + TickInterval]
    /\ activity' = [activity EXCEPT ![p] = TickActivity(@, now)]
    /\ sent' = SendVisualizationEvents(p, <<ActivityEvent(activity'[p])>>)
    /\ UNCHANGED <<now, visualizationPanel, deactivated, milkdropActive, nPanels,
                   activityHistory, cursorPositions, currentPreset, panelDisposed,
                   subscribed>>

\* milkdrop-visualizer.nextPreset: visualizationPanel?.nextPreset().
NextPresetCommand ==
    /\ ~deactivated
    /\ IF visualizationPanel # 0
       THEN /\ currentPreset' = [currentPreset EXCEPT ![visualizationPanel] = NextPresetIndex(@)]
            /\ sent' = SendVisualizationEvents(visualizationPanel,
                   <<PresetEvent(currentPreset'[visualizationPanel])>>)
       ELSE /\ sent' = <<>>
            /\ UNCHANGED currentPreset
    /\ UNCHANGED <<now, visualizationPanel, deactivated, milkdropActive, nPanels,
                   activity, activityHistory, cursorPositions, panelDisposed,
                   subscribed, nextTick>>

\* milkdrop-visualizer.prevPreset: visualizationPanel?.prevPreset().
PrevPresetCommand ==
    /\ ~deactivated
    /\ IF visualizationPanel # 0
       THEN /\ currentPreset' = [currentPreset EXCEPT ![visualizationPanel] = PrevPresetIndex(@)]
            /\ sent' = SendVisualizationEvents(visualizationPanel,
                   <<PresetEvent(currentPreset'[visualizationPanel])>>)
       ELSE /\ sent' = <<>>
            /\ UNCHANGED currentPreset
    /\ UNCHANGED <<now, visualizationPanel, deactivated, milkdropActive, nPanels,
                   activity, activityHistory, cursorPositions, panelDisposed,
                   subscribed, nextTick>>

\* ----------------------------------------------------- webview script
\* The 'message' listener of a webview runs for the oldest posted message;
\* the webview of a disposed panel is gone and its messages with it.
WindowMessage ==
    /\ inbox # <<>>
    /\ inbox' = Tail(inbox)
    /\ LET message == Head(inbox)
           p == message.panel
           after == HandleVisualizationEvent(rendererActivity[p], rendererPreset[p], message)
       IN  IF panelDisposed[p]
           THEN UNCHANGED <<rendererActivity, rendererPreset>>
           ELSE /\ rendererActivity' = [rendererActivity EXCEPT ![p] = after.activity]
                /\ rendererPreset' = [rendererPreset EXCEPT ![p] = after.currentPreset]
    /\ UNCHANGED <<now, host, analyzer>>

\* The 'keydown' listener of panel p's webview, for Ctrl+Shift+M.
KeyDown(p) ==
    /\ p <= nPanels
    /\ ~panelDisposed[p]
    /\ rendererPreset' = [rendererPreset EXCEPT ![p] = NextPresetIndex(@)]
    /\ UNCHANGED <<now, visualizationPanel, deactivated, milkdropActive, nPanels,
                   activity, activityHistory, cursorPositions, currentPreset,
                   panelDisposed, subscribed, nextTick, sent>>
    /\ UNCHANGED <<analyzer, rendererActivity, inbox>>

\* A callback of the extension host whose messages postMessage queues for
\* the webviews.
Posted(A) ==
    /\ A
    /\ Len(inbox) + Len(sent') <= MaxInbox
    /\ inbox' = inbox \o sent'
    /\ UNCHANGED <<analyzer, rendererActivity, rendererPreset>>

\* --------------------------------------------- ActivityAnalyzer calls
\* The clock advances between two calls of the ActivityAnalyzer object.
AnalyzerAdvance(d) ==
    /\ now + d <= MaxTime
    /\ now' = now + d
    /\ UNCHANGED <<host, analyzer, webview>>

\* A call analyzeKeystrokeIntensity(chars, timeDelta).
CallAnalyzeKeystrokeIntensity(chars, timeDelta) ==
    /\ keystrokeBuffer' = KeystrokeBufferAfter(keystrokeBuffer, chars, timeDelta)
    /\ calls' = IF timeDelta = 0 THEN calls ELSE calls + 1
    /\ returned' = [method |-> "analyzeKeystrokeIntensity",
                    value |-> AnalyzeKeystrokeIntensity(keystrokeBuffer, chars, timeDelta)]
    /\ UNCHANGED <<now, host, webview, cursorMovements>>

\* A call analyzeCursorFlow(newX, newY), Date.now() being now.
CallAnalyzeCursorFlow(newX, newY) ==
    /\ cursorMovements' = CursorMovementsAfter(cursorMovements, newX, newY, now)
    /\ calls' = calls + 1
    /\ returned' = [method |-> "analyzeCursorFlow",
                    value |-> AnalyzeCursorFlow(cursorMovements, newX, newY, now)]
    /\ UNCHANGED <<now, host, webview, keystrokeBuffer>>

\* A call analyzeChaos(simultaneousEdits, rapidChanges).
CallAnalyzeChaos(simultaneousEdits, rapidChanges) ==
    /\ returned' = [method |-> "analyzeChaos",
                    value |-> AnalyzeChaos(simultaneousEdits, rapidChanges)]
    /\ UNCHANGED <<now, host, webview, keystrokeBuffer, cursorMovements, calls>>

\* A call analyzeHeat(linesModified, totalLines).
CallAnalyzeHeat(linesModified, totalLines) ==
    /\ returned' = [method |-> "analyzeHeat",
                    value |-> AnalyzeHeat(linesModified, totalLines)]
    /\ UNCHANGED <<now, host, webview, keystrokeBuffer, cursorMovements, calls>>

\* A call analyzeFocus(timeInEditor, editorSwitches).
CallAnalyzeFocus(timeInEditor, editorSwitches) ==
    /\ returned' = [method |-> "analyzeFocus",
                    value |-> AnalyzeFocus(timeInEditor, editorSwitches)]
    /\ UNCHANGED <<now, host, webview, keystrokeBuffer, cursorMovements, calls>>

\* One host event or command, counted against MaxEvents.
Delivered(A) ==
    events < MaxEvents /\ events' = events + 1 /\ A /\ UNCHANGED <<analyzer, webview>>

Next ==
    \/ \E d \in TimeSteps : Advance(d) /\ UNCHANGED <<events, analyzer, webview>>
    \/ \E p \in Panels : Tick(p) /\ UNCHANGED <<events, analyzer, webview>>
    \/ Delivered(ToggleOn)
    \/ Delivered(ToggleOff)
    \/ Delivered(Deactivate)
    \/ \E p \in Panels : Delivered(UserClose(p))
    \/ \E p \in Panels, isActive \in BOOLEAN, changes \in ChangeLists :
           Delivered(OnDidChangeTextDocument(p, isActive, changes))
    \/ \E p \in Panels, selection \in Selections :
           Delivered(OnDidChangeTextEditorSelection(p, selection))
    \/ \E p \in Panels : Delivered(OnDidChangeActiveTextEditor(p))

Spec == Init /\ [][Next]_vars

\* The same program when the host delivers commands and panel closes only.
NextCommands ==
    \/ \E d \in TimeSteps : Advance(d) /\ UNCHANGED <<events, analyzer, webview>>
    \/ \E p \in Panels : Tick(p) /\ UNCHANGED <<events, analyzer, webview>>
    \/ Delivered(ToggleOn)
    \/ Delivered(ToggleOff)
    \/ Delivered(Deactivate)
    \/ \E p \in Panels : Delivered(UserClose(p))
    \/ Delivered(NextPresetCommand)
    \/ Delivered(PrevPresetCommand)

SpecCommands == Init /\ [][NextCommands]_vars

\* The extension host together with the webview scripts: what the host
\* posts is handled there later, in the order it was posted.
NextRenderer ==
    \/ \E d \in TimeSteps : Advance(d) /\ UNCHANGED <<events, analyzer, webview>>
    \/ \E p \in Panels : Posted(Tick(p)) /\ UNCHANGED events
    \/ Delivered(ToggleOn)
    \/ \E p \in Panels, change \in ContentChanges :
           /\ events < MaxEvents /\ events' = events + 1
           /\ Posted(OnDidChangeTextDocument(p, TRUE, <<change>>))
    \/ \E p \in Panels, selection \in Selections :
           /\ events < MaxEvents /\ events' = events + 1
           /\ Posted(OnDidChangeTextEditorSelection(p, selection))
    \/ events < MaxEvents /\ events' = events + 1 /\ Posted(NextPresetCommand)
    \/ events < MaxEvents /\ events' = events + 1 /\ Posted(PrevPresetCommand)
    \/ \E p \in Panels : events < MaxEvents /\ events' = events + 1 /\ KeyDown(p)
    \/ WindowMessage

SpecRenderer == Init /\ [][NextRenderer]_vars

\* The first milliseconds of a panel under a steady typist: every
\* TypingInterval the cursor moves once and then one text change of the
\* active document arrives, which inserts text except for at most MaxEvents
\* changes that delete.  No interval callback is due yet.
NextBuffers ==
    \/ now = 0 /\ ToggleOn /\ UNCHANGED <<events, analyzer, webview>>
    \/ /\ visualizationPanel # 0
       /\ activity[visualizationPanel].lastActivity = now
       /\ now < MaxTypingSteps * TypingInterval
       /\ now + TypingInterval < nextTick[visualizationPanel]
       /\ Advance(TypingInterval)
       /\ UNCHANGED <<events, analyzer, webview>>
    \/ \E selection \in Selections :
           /\ visualizationPanel # 0
           /\ selection.isEmpty
           /\ \A i \in 1 .. Len(cursorPositions[visualizationPanel]) :
                  cursorPositions[visualizationPanel][i].time < now
           /\ OnDidChangeTextEditorSelection(visualizationPanel, selection)
           /\ UNCHANGED <<events, analyzer, webview>>
    \/ \E change \in ContentChanges :
           /\ visualizationPanel # 0
           /\ cursorPositions[visualizationPanel] # <<>>
           /\ cursorPositions[visualizationPanel][Len(cursorPositions[visualizationPanel])].time = now
           /\ now = 0 \/ activity[visualizationPanel].lastActivity < now
           /\ change.textLength > 0 \/ events < MaxEvents
           /\ events' = IF change.textLength > 0 THEN events ELSE events + 1
           /\ OnDidChangeTextDocument(visualizationPanel, TRUE, <<change>>)
           /\ UNCHANGED <<analyzer, webview>>

SpecBuffers == Init /\ [][NextBuffers]_vars

\* The same program when the host delivers to one panel a single text change
\* and as many active-editor changes as it likes.
NextFocus ==
    \/ \E d \in TimeSteps : Advance(d) /\ UNCHANGED <<events, analyzer, webview>>
    \/ \E p \in Panels : Tick(p) /\ UNCHANGED <<events, analyzer, webview>>
    \/ ToggleOn /\ UNCHANGED <<events, analyzer, webview>>
    \/ \E p \in Panels : OnDidChangeActiveTextEditor(p) /\ UNCHANGED <<events, analyzer, webview>>
    \/ \E p \in Panels, changes \in ChangeLists :
           /\ events = 0 /\ events' = 1 /\ OnDidChangeTextDocument(p, TRUE, changes)
           /\ UNCHANGED <<analyzer, webview>>

SpecFocus == Init /\ [][NextFocus]_vars

\* An ActivityAnalyzer object whose analyzeKeystrokeIntensity is called over
\* and over.
NextKeystroke ==
    \E chars \in KeystrokeChars, timeDelta \in KeystrokeDeltas :
        /\ timeDelta = 0 \/ calls < MaxKeystrokeSamples
        /\ CallAnalyzeKeystrokeIntensity(chars, timeDelta)

SpecKeystroke == Init /\ [][NextKeystroke]_vars

\* An ActivityAnalyzer object whose five methods are called in any order as
\* the clock advances.
NextAnalyzer ==
    \/ \E d \in AnalyzerTimeSteps : AnalyzerAdvance(d)
    \/ \E chars \in KeystrokeChars, timeDelta \in KeystrokeDeltas :
           /\ timeDelta = 0 \/ calls < MaxAnalyzerSamples
           /\ CallAnalyzeKeystrokeIntensity(chars, timeDelta)
    \/ \E point \in CursorPoints :
           /\ calls < MaxAnalyzerSamples
           /\ CallAnalyzeCursorFlow(point.x, point.y)
    \/ \E simultaneousEdits \in SimultaneousEdits, rapidChanges \in BOOLEAN :
           CallAnalyzeChaos(simultaneousEdits, rapidChanges)
    \/ \E linesModified \in LinesModifiedCounts, totalLines \in TotalLinesCounts :
           CallAnalyzeHeat(linesModified, totalLines)
    \/ \E timeInEditor \in TimesInEditor, editorSwitches \in EditorSwitches :
           CallAnalyzeFocus(timeInEditor, editorSwitches)

SpecAnalyzer == Init /\ [][NextAnalyzer]_vars

\* ------------------------------------------------------------ claims
Scalars(a) == {a.intensity, a.focus, a.chaos, a.heat, a.cursorFlow}

\* Some callback of the three listeners of panel p runs in this step.
ListenerStep(p) ==
    \/ \E isActive \in BOOLEAN, changes \in ChangeLists :
           OnDidChangeTextDocument(p, isActive, changes)
    \/ \E selection \in Selections : OnDidChangeTextEditorSelection(p, selection)
    \/ OnDidChangeActiveTextEditor(p)

\* What every text-change callback of panel p in the active editor does,
\* whatever the batch: the listener is registered, the clock, the timers and
\* the cursor samples stay, and an undisposed panel's webview gets messages.
MayBeTextChange(p) ==
    /\ subscribed[p]
    /\ UNCHANGED <<now, nextTick, cursorPositions>>
    /\ panelDisposed[p] \/ (sent' # <<>> /\ sent'[1].panel = p)

\* This step is the text-change callback of panel p for the batch changes,
\* in the active editor.  The first two conjuncts follow from the third (the
\* callback posts one 'keystroke' message per change and then one 'activity'
\* message, or nothing); they only spare computing it for the other batches.
TextChangeStep(p, changes) ==
    /\ Len(sent') \in {0, Len(changes) + 1}
    /\ \/ sent' = <<>>
       \/ \A i \in 1 .. Len(changes) : /\ sent'[i].data.line = changes[i].line
                                        /\ sent'[i].data.text = changes[i].textLength
    /\ OnDidChangeTextDocument(p, TRUE, changes)

\* The 'activity' messages among the messages of the last callback.
ActivityMessages == {i \in 1 .. Len(sent) : sent[i].type = "activity"}

\* C1: in every reachable state each of intensity, focus, chaos, heat and
\* cursorFlow of every panel lies in [0,1], and so does every value carried
\* by an 'activity' message.
C1_ScalarsInUnitInterval ==
    /\ \A p \in Panels : \A v \in Scalars(activity[p]) : 0 <= v /\ v <= One
    /\ \A i \in ActivityMessages : \A v \in Scalars(sent[i].data) : 0 <= v /\ v <= One

\* A multi-cursor edit one second after the last activity has just driven
\* intensity, chaos and heat to the clamp, and the message carries them.
C1_Witness ==
    \E p \in Panels :
        /\ activity[p].intensity = One
        /\ activity[p].chaos = One
        /\ activity[p].heat = One
        /\ ActivityMessages # {}
        /\ \A i \in ActivityMessages : sent[i].data = activity[p]

\* C2 (as claimed): once panel p is disposed, no step changes its activity
\* vector and no 'activity' message of p is sent.
C2_NoTickAfterDispose ==
    [][\A p \in Panels :
          panelDisposed[p] =>
              /\ activity'[p] = activity[p]
              /\ \A i \in 1 .. Len(sent') : sent'[i].panel # p]_vars

\* C3: after dispose() no listener callback of the panel runs: no step of a
\* disposed panel is a text-change, selection-change or active-editor-change
\* callback, so none changes its vector or sends 'keystroke', 'cursor' or
\* 'activity' through them.
C3_DisposedPanelHearsNothing ==
    [][\A p \in Panels : panelDisposed[p] => ~ListenerStep(p)]_vars

\* A panel is disposed while the host may still deliver events.
C3_Witness ==
    \E p \in Panels : p <= nPanels /\ panelDisposed[p] /\ events < MaxEvents

\* The last n elements of q.
LastN(q, n) == SubSeq(q, Max(1, Len(q) - n + 1), Len(q))

\* C4 (as claimed): after every text-change callback intensity is what
\* analyzeKeystrokeIntensity returns for the batch: the recency-weighted
\* average of the last 10 chars-per-second samples divided by 15 and capped
\* at 1, and 0 when the elapsed time is 0.
C4_IntensityIsExtractorValue ==
    [][\A p \in Panels : MayBeTextChange(p) => \A changes \in ChangeLists :
          TextChangeStep(p, changes) =>
              LET timeDelta == now - activity[p].lastActivity
                  samples == LastN(activityHistory'[p], KeystrokeBufferCap)
              IN  activity'[p].intensity =
                      IF timeDelta = 0 THEN 0
                      ELSE Min(WeightedAverage(samples) \div 15, One)]_vars

\* C4 (amended): after a text-change callback with elapsed time above 0 the
\* newest sample of activityHistory is the batch's chars per second, at most
\* 20 samples are kept, and intensity is their plain mean divided by 10 and
\* capped at 1; with elapsed time 0 intensity and the history keep their
\* values.
C4_IntensityIsMeanOfHistory ==
    [][\A p \in Panels : MayBeTextChange(p) => \A changes \in ChangeLists :
          TextChangeStep(p, changes) =>
              LET timeDelta == now - activity[p].lastActivity
                  old == activityHistory[p]
                  new == activityHistory'[p]
              IN  IF timeDelta > 0
                  THEN /\ Len(new) = Min(Len(old) + 1, ActivityHistoryCap)
                       /\ new[Len(new)] = (TotalChars(changes) * 1000 * Scale) \div timeDelta
                       /\ \A i \in 1 .. Len(new) - 1 : new[i] = old[i + Len(old) + 1 - Len(new)]
                       /\ activity'[p].intensity = Min((SumSeq(new) \div Len(new)) \div 10, One)
                  ELSE /\ new = old
                       /\ activity'[p].intensity = activity[p].intensity]_vars

\* Two different samples are in the history and the intensity, their mean
\* over 10, is neither 0 nor clamped.
C4_Witness ==
    \E p \in Panels :
        /\ Len(activityHistory[p]) = 2
        /\ activityHistory[p][1] # activityHistory[p][2]
        /\ activity[p].intensity > 0
        /\ activity[p].intensity < One
        /\ Len(sent) > 0
        /\ sent[Len(sent)].type = "activity"
        /\ sent[Len(sent)].data.lastActivity = now

\* C5 (as claimed): a cursor-move callback sets cursorFlow to
\* min(cursorFlow + 0.01 * s, 1) with s the value of analyzeCursorFlow over
\* the samples of the last 2000 ms, so it raises cursorFlow by at most 0.01.
C5_CursorFlowAddsNormalizedSpeed ==
    [][\A p \in Panels, selection \in Selections :
          OnDidChangeTextEditorSelection(p, selection) =>
              LET s == AnalyzeCursorFlow(cursorPositions[p], selection.character,
                                         selection.line, now)
              IN  /\ activity'[p].cursorFlow = Min(activity[p].cursorFlow + Mul(s, Dec(1, 100)), One)
                  /\ activity'[p].cursorFlow <= activity[p].cursorFlow + Dec(1, 100)]_vars

\* C5 (amended): a cursor-move callback with a recorded previous position
\* reached more than 0 ms ago sets cursorFlow to min(cursorFlow + 0.01 * v, 1)
\* with v the distance from that position divided by the seconds since it,
\* not normalized; any other cursor-move callback leaves cursorFlow as it is.
C5_CursorFlowAddsRawSpeed ==
    [][\A p \in Panels, selection \in Selections :
          OnDidChangeTextEditorSelection(p, selection) =>
              LET ps == cursorPositions[p]
                  flow == activity[p].cursorFlow
              IN  IF Len(ps) > 0 /\ now > ps[Len(ps)].time
                  THEN LET dx == selection.character - ps[Len(ps)].x
                           dy == selection.line - ps[Len(ps)].y
                           v == (Sqrt(dx * dx + dy * dy) * 1000) \div (now - ps[Len(ps)].time)
                       IN  activity'[p].cursorFlow = Min(flow + (v * Dec(1, 100)) \div Scale, One)
                  ELSE activity'[p].cursorFlow = flow]_vars

\* One cursor move has just raised cursorFlow by more than 0.01 without
\* reaching the clamp.
C5_Witness ==
    \E p \in Panels :
        /\ Len(cursorPositions[p]) = 2
        /\ activity[p].cursorFlow > Dec(1, 100)
        /\ activity[p].cursorFlow < One
        /\ Len(sent) = 2
        /\ sent[1].type = "cursor"
        /\ sent[2].data.cursorFlow = activity[p].cursorFlow

\* b is a multiplied by pct/100, in fixed point.
TimesPct(a, b, pct) == b * 100 <= a * pct /\ a * pct < (b + 1) * 100

\* Milliseconds since lastActivity of panel p.
TimeSinceActivity(p) == now - activity[p].lastActivity

\* The last callback was the interval callback of the live panel p.
JustTicked(p) ==
    /\ p <= nPanels
    /\ ~panelDisposed[p]
    /\ nextTick[p] = now + TickInterval
    /\ sent = <<[panel |-> p, type |-> "activity", data |-> activity[p]]>>
    /\ TimeSinceActivity(p) > 0

\* C6: a tick more than 1000 ms after lastActivity multiplies intensity,
\* chaos, heat and cursorFlow by 0.95, 0.98, 0.99 and 0.97; none rises, none
\* is negative afterwards, and each that was positive falls.  Ticks being the
\* only steps of a run of consecutive ticks, the same holds over the run.
C6_IdleDecay ==
    [][\A p \in Panels :
          (Tick(p) /\ TimeSinceActivity(p) > DecayAfter) =>
              LET a == activity[p]
                  b == activity'[p]
              IN  /\ TimesPct(a.intensity, b.intensity, 95)
                  /\ TimesPct(a.chaos, b.chaos, 98)
                  /\ TimesPct(a.heat, b.heat, 99)
                  /\ TimesPct(a.cursorFlow, b.cursorFlow, 97)
                  /\ \A f \in {"intensity", "chaos", "heat", "cursorFlow"} :
                         /\ 0 <= b[f]
                         /\ b[f] <= a[f]
                         /\ (a[f] > 0 => b[f] < a[f])]_vars

\* Two idle ticks in a row have decayed a positive intensity, chaos and heat.
C6_Witness ==
    \E p \in Panels :
        /\ JustTicked(p)
        /\ TimeSinceActivity(p) > 2 * DecayAfter
        /\ activity[p].intensity > 0
        /\ activity[p].chaos > 0
        /\ activity[p].heat > 0
        /\ activity[p].chaos < Dec(1, 10)

\* C7: a tick decays intensity, chaos, heat and cursorFlow exactly when more
\* than 1000 ms passed since lastActivity, and leaves them alone otherwise
\* (also at exactly 1000 ms); it sets focus to min(focus + 0.01, 1) when fewer
\* than 5000 ms passed and multiplies it by 0.995 otherwise (also at exactly
\* 5000 ms).
C7_TickThresholds ==
    [][\A p \in Panels :
          Tick(p) =>
              LET a == activity[p]
                  b == activity'[p]
                  since == TimeSinceActivity(p)
              IN  /\ IF since > 1000
                     THEN /\ TimesPct(a.intensity, b.intensity, 95)
                          /\ TimesPct(a.chaos, b.chaos, 98)
                          /\ TimesPct(a.heat, b.heat, 99)
                          /\ TimesPct(a.cursorFlow, b.cursorFlow, 97)
                     ELSE /\ b.intensity = a.intensity
                          /\ b.chaos = a.chaos
                          /\ b.heat = a.heat
                          /\ b.cursorFlow = a.cursorFlow
                  /\ IF since < 5000
                     THEN b.focus = Min(a.focus + Dec(1, 100), One)
                     ELSE b.focus * 1000 <= a.focus * 995 /\ a.focus * 995 < (b.focus + 1) * 1000
                  /\ b.lastActivity = a.lastActivity]_vars

\* A tick has just run exactly 5000 ms after a text change, with focus,
\* chaos and heat positive.
C7_Witness ==
    \E p \in Panels :
        /\ JustTicked(p)
        /\ TimeSinceActivity(p) = FocusWindow
        /\ activity[p].focus > 0
        /\ activity[p].chaos > 0
        /\ activity[p].heat > 0

\* C8: every tick of a live panel sends exactly one message, an 'activity'
\* message carrying the vector as it is after the decay and the focus update of
\* that tick.
C8_TickPublishesOnce ==
    [][\A p \in Panels :
          (Tick(p) /\ ~panelDisposed[p]) =>
              /\ sent' = <<[panel |-> p, type |-> "activity", data |-> activity'[p]]>>
              /\ activity'[p] = TickActivity(activity[p], now)]_vars

\* A tick of a live panel has just decayed a positive chaos and published it.
C8_Witness ==
    \E p \in Panels :
        /\ JustTicked(p)
        /\ TimeSinceActivity(p) > DecayAfter
        /\ sent[1].data.chaos > 0
        /\ sent[1].data.focus > 0

\* C9: a text-change callback with n change events on d distinct start lines
\* sets chaos to min(chaos + 0.1 * n, 1) and heat to min(heat + 0.05 * d, 1)
\* and leaves focus and cursorFlow unchanged.
C9_ChaosAndHeat ==
    [][\A p \in Panels : MayBeTextChange(p) => \A changes \in ChangeLists :
          TextChangeStep(p, changes) =>
              LET n == Len(changes)
                  d == Cardinality({changes[i].line : i \in 1 .. n})
              IN  /\ activity'[p].chaos = Min(activity[p].chaos + n * Dec(1, 10), One)
                  /\ activity'[p].heat = Min(activity[p].heat + d * Dec(5, 100), One)
                  /\ activity'[p].focus = activity[p].focus
                  /\ activity'[p].cursorFlow = activity[p].cursorFlow]_vars

\* Two changes starting on the same line have just counted twice for chaos
\* and once for heat.
C9_Witness ==
    \E p \in Panels :
        /\ Len(sent) = 3
        /\ sent[1].type = "keystroke"
        /\ sent[2].type = "keystroke"
        /\ sent[1].data.line = sent[2].data.line
        /\ sent[3].data = activity[p]
        /\ activity[p].chaos = Dec(2, 10)
        /\ activity[p].heat = Dec(5, 100)

\* C10: an active-editor-change callback sets focus to min(focus + 0.2, 1) and
\* leaves intensity, chaos, heat, cursorFlow, lastActivity, activityHistory and
\* cursorPositions unchanged.
C10_EditorChangeRaisesFocusOnly ==
    [][\A p \in Panels :
          OnDidChangeActiveTextEditor(p) =>
              /\ activity'[p] = [activity[p] EXCEPT !.focus = Min(@ + Dec(2, 10), One)]
              /\ activityHistory'[p] = activityHistory[p]
              /\ cursorPositions'[p] = cursorPositions[p]]_vars

\* Before any tick could run, active-editor changes alone have brought focus
\* to the clamp, next to a positive chaos.
C10_Witness ==
    \E p \in Panels :
        /\ p <= nPanels
        /\ now < nextTick[p]
        /\ activity[p].lastActivity = now
        /\ activity[p].focus = One
        /\ activity[p].chaos > 0
        /\ sent = <<>>

\* ------------------------------------------- claims: ActivityAnalyzer
\* C11: analyzeKeystrokeIntensity(chars, 0) returns 0 for every chars and
\* leaves keystrokeBuffer as it was: no sample is appended.
C11_ZeroElapsedReturnsZero ==
    [][\A chars \in KeystrokeChars :
          CallAnalyzeKeystrokeIntensity(chars, 0) =>
              /\ returned'.value = 0
              /\ keystrokeBuffer' = keystrokeBuffer]_vars

\* A call has just returned 0 although the newest sample of the buffer is
\* above 0: the call was one with elapsed time 0 and chars above 0 or not.
C11_Witness ==
    /\ returned.method = "analyzeKeystrokeIntensity"
    /\ returned.value = 0
    /\ Len(keystrokeBuffer) >= 2
    /\ keystrokeBuffer[Len(keystrokeBuffer)] > 0

\* C12: keystrokeBuffer never holds more than 10 samples, and a call with
\* elapsed time other than 0 puts its chars-per-second value last, keeps the
\* samples before it in their order, and when the buffer was full drops the
\* first (oldest) one and no other.
C12_KeystrokeBufferFifo ==
    /\ [](Len(keystrokeBuffer) <= KeystrokeBufferCap)
    /\ [][\A chars \in KeystrokeChars, timeDelta \in KeystrokeDeltas \ {0} :
            CallAnalyzeKeystrokeIntensity(chars, timeDelta) =>
                LET old == keystrokeBuffer
                    new == keystrokeBuffer'
                    dropped == IF Len(old) = KeystrokeBufferCap THEN 1 ELSE 0
                IN  /\ Len(new) = Len(old) + 1 - dropped
                    /\ new[Len(new)] = (chars * 1000 * Scale) \div timeDelta
                    /\ \A i \in 1 .. Len(new) - 1 : new[i] = old[i + dropped]]_vars

\* The 11th sample has arrived: ten samples are held, not all the same.
C12_Witness ==
    /\ calls = KeystrokeBufferCap + 1
    /\ Len(keystrokeBuffer) = KeystrokeBufferCap
    /\ keystrokeBuffer[1] # keystrokeBuffer[2]
    /\ keystrokeBuffer[1] # keystrokeBuffer[KeystrokeBufferCap]

\* f[1] + ... + f[n].
RECURSIVE SumOver(_, _)
SumOver(f, n) == IF n = 0 THEN 0 ELSE f[n] + SumOver(f, n - 1)

\* C13: a call with elapsed time above 0 returns min(W / 15, 1), W being the
\* weighted average of the buffer after the append with weight i/N for the
\* i-th oldest of N samples (the common denominator N cancels, and i/N is
\* largest for the newest sample, i = N); on an empty buffer
\* analyzeKeystrokeIntensity(15, 1000) returns 1.
C13_WeightedAverageOver15 ==
    [][\A chars \in KeystrokeChars, timeDelta \in KeystrokeDeltas \ {0} :
          CallAnalyzeKeystrokeIntensity(chars, timeDelta) =>
              LET b == keystrokeBuffer'
                  N == Len(b)
                  weightedSum == SumOver([i \in 1 .. N |-> b[i] * i], N)
                  totalWeight == SumOver([i \in 1 .. N |-> i], N)
              IN  /\ returned'.value = Min((weightedSum \div totalWeight) \div 15, One)
                  /\ (keystrokeBuffer = <<>> /\ chars = 15 /\ timeDelta = 1000)
                         => returned'.value = One]_vars

\* The buffer is 0 then 15 chars per second and the call returned 2/3: the
\* newer sample counted twice, (0 * 1 + 15 * 2) / 3 / 15.
C13_Witness ==
    /\ returned.method = "analyzeKeystrokeIntensity"
    /\ keystrokeBuffer = <<0, 15 * Scale>>
    /\ returned.value = Dec(2, 3)

\* C14: analyzeCursorFlow returns 0 when, after the append and the pruning,
\* fewer than 2 samples are left, and returns 0 when all samples left carry
\* the same timestamp, however far apart their positions are.
C14_CursorFlowZeroCases ==
    [][returned'.method = "analyzeCursorFlow" => \A point \in CursorPoints :
          CallAnalyzeCursorFlow(point.x, point.y) =>
              LET ms == cursorMovements'
              IN  (\/ Len(ms) < 2
                   \/ \A i, j \in 1 .. Len(ms) : ms[i].time = ms[j].time)
                      => returned'.value = 0]_vars

\* Two samples of one timestamp at different positions are held and the call
\* that appended the second returned 0.
C14_Witness ==
    /\ returned.method = "analyzeCursorFlow"
    /\ returned.value = 0
    /\ Len(cursorMovements) = 2
    /\ cursorMovements[1].time = cursorMovements[2].time
    /\ cursorMovements[1].x # cursorMovements[2].x

\* C15: after a call of analyzeCursorFlow at time t no sample of
\* cursorMovements is older than t - 2000 ms, the last one is the sample of
\* the call, and the ones before it are samples held before the call, in
\* the order they had (the clock never runs backwards).
C15_CursorWindow ==
    [][returned'.method = "analyzeCursorFlow" => \A point \in CursorPoints :
          CallAnalyzeCursorFlow(point.x, point.y) =>
              LET old == cursorMovements
                  new == cursorMovements'
              IN  /\ \A i \in 1 .. Len(new) : new[i].time >= now - CursorWindow
                  /\ Len(new) >= 1
                  /\ new[Len(new)] = [x |-> point.x, y |-> point.y, time |-> now]
                  /\ \E k \in 1 .. Len(old) + 1 :
                         SubSeq(new, 1, Len(new) - 1) = SubSeq(old, k, Len(old))]_vars

\* Three calls 1000 ms apart: the third has dropped the first sample, 2000 ms
\* old, and kept the second before its own.
C15_Witness ==
    /\ returned.method = "analyzeCursorFlow"
    /\ calls = 3
    /\ keystrokeBuffer = <<>>
    /\ Len(cursorMovements) = 2
    /\ cursorMovements[1].time = now - CursorWindow \div 2
    /\ cursorMovements[2].time = now

\* C16: whatever method of the ActivityAnalyzer object was called last, with
\* arguments of 0 or more and the buffers in any state calls can bring them
\* to, the value it returned lies in [0,1].
C16_ExtractorsInUnitInterval ==
    /\ 0 <= returned.value
    /\ returned.value <= One

\* analyzeCursorFlow has just met a speed above 100 units per second over
\* two samples and returned 1.
C16_Witness ==
    /\ returned.method = "analyzeCursorFlow"
    /\ returned.value = One
    /\ Len(cursorMovements) = 2
    /\ cursorMovements[1].time < cursorMovements[2].time

\* C17: analyzeFocus(t, s) is max(min(t / 60000, 1) - min(s * 0.1, 0.5), 0):
\* what the switches take off is never more than 0.5, the result is never
\* below 0, and analyzeFocus(30000, 3) is 0.2.
C17_FocusFormula ==
    [][returned'.method = "analyzeFocus" => \A t \in TimesInEditor, s \in EditorSwitches :
          CallAnalyzeFocus(t, s) =>
              LET dwell == IF t >= 60000 THEN One ELSE (t * Scale) \div 60000
                  penalty == IF s >= 5 THEN Dec(5, 10) ELSE s * Dec(1, 10)
                  v == returned'.value
              IN  /\ v = (IF dwell >= penalty THEN dwell - penalty ELSE 0)
                  /\ v >= 0
                  /\ dwell - v <= Dec(5, 10)
                  /\ (t = 30000 /\ s = 3) => v = Dec(2, 10)]_vars

\* analyzeFocus has just returned 0.2, as it does for 30000 ms and 3
\* switches, the buffers of the object not being empty.
C17_Witness ==
    /\ returned = [method |-> "analyzeFocus", value |-> Dec(2, 10)]
    /\ keystrokeBuffer # <<>>

\* C18: analyzeHeat(m, n) is 0 when n is 0 and min((m / n) * 5, 1)
\* otherwise, so it is 1 as soon as m / n reaches 1/5, and
\* analyzeHeat(5, 10) is 1.
C18_HeatFormula ==
    [][returned'.method = "analyzeHeat" => \A m \in LinesModifiedCounts, n \in TotalLinesCounts :
          CallAnalyzeHeat(m, n) =>
              LET v == returned'.value
              IN  /\ n = 0 => v = 0
                  /\ n # 0 => v = Min(((m * Scale) \div n) * 5, One)
                  /\ (n # 0 /\ 5 * m >= n) => v = One
                  /\ (n # 0 /\ 5 * m < n) => v < One
                  /\ (m = 5 /\ n = 10) => v = One]_vars

\* analyzeHeat has just returned 0.5, as it does for 1 line of 10: below the
\* ratio 1/5 the result is 5 times the ratio.
C18_Witness ==
    /\ returned = [method |-> "analyzeHeat", value |-> Dec(5, 10)]
    /\ cursorMovements # <<>>

\* C19: analyzeChaos(e, r) is min(e * 0.2 + (0.3 if r), 1) whatever calls
\* came before it, it changes neither buffer, and analyzeChaos(2, true) is
\* 0.7.
C19_ChaosFormula ==
    [][returned'.method = "analyzeChaos" => \A e \in SimultaneousEdits, r \in BOOLEAN :
          CallAnalyzeChaos(e, r) =>
              LET tenths == 2 * e + (IF r THEN 3 ELSE 0)
                  v == returned'.value
              IN  /\ v = (IF tenths >= 10 THEN One ELSE tenths * Dec(1, 10))
                  /\ UNCHANGED <<keystrokeBuffer, cursorMovements>>
                  /\ (e = 2 /\ r) => v = Dec(7, 10)]_vars

\* analyzeChaos has just returned 0.7 on an object whose two buffers hold
\* samples of earlier calls.
C19_Witness ==
    /\ returned = [method |-> "analyzeChaos", value |-> Dec(7, 10)]
    /\ keystrokeBuffer # <<>>
    /\ cursorMovements # <<>>

C21_PresetCyclingWraps ==
    [][(visualizationPanel # 0 /\ (NextPresetCommand \/ PrevPresetCommand)) =>
          LET last == PresetCount - 1
              before == currentPreset[visualizationPanel]
              after == currentPreset'[visualizationPanel]
          IN  /\ NextPresetIndex(last) = 0
              /\ PrevPresetIndex(0) = last
              /\ \A i \in 0 .. last - 1 : NextPresetIndex(i) = i + 1
              /\ \A i \in 1 .. last : PrevPresetIndex(i) = i - 1
              /\ NextPresetCommand => after = NextPresetIndex(before)
              /\ PrevPresetCommand => after = PrevPresetIndex(before)
              /\ (NextPresetCommand /\ before = last) => after = 0
              /\ (PrevPresetCommand /\ before = 0) => after = last]_vars

\* A command has just brought the index of the open panel back to 0,
\* nextPreset from 4 or prevPreset from 1, and the webview has the message
\* saying so.
C21_Witness ==
    \E p \in Panels :
        /\ p = visualizationPanel
        /\ ~panelDisposed[p]
        /\ currentPreset[p] = 0
        /\ sent = <<[panel |-> p, type |-> "preset", data |-> [preset |-> 0]]>>

\* Panel p's webview handles its oldest posted message in this step.
Handles(p, type) ==
    /\ inbox # <<>>
    /\ inbox' = Tail(inbox)
    /\ Head(inbox).panel = p
    /\ Head(inbox).type = type
    /\ ~panelDisposed[p]

\* C22 (as claimed): the renderer never mutates its activity vector: the
\* five values it holds change only when it handles an 'activity' message,
\* and then to the values of that message, so they always equal those of
\* the 'activity' message handled last; handling a 'keystroke', 'cursor' or
\* 'preset' message leaves them unchanged.
C22_RendererOnlyReadsActivity ==
    [][\A p \in Panels :
          /\ Handles(p, "activity") => rendererActivity'[p] = Head(inbox).data
          /\ ~Handles(p, "activity") => rendererActivity'[p] = rendererActivity[p]]_vars

\* C28 (as claimed): once every 'preset' message posted to a panel's webview
\* has been handled there, the renderer's preset index equals the panel's
\* currentPreset.
C28_RendererPresetFollowsPanel ==
    \A p \in Panels :
        (/\ p <= nPanels
         /\ ~panelDisposed[p]
         /\ \A i \in 1 .. Len(inbox) : ~(inbox[i].panel = p /\ inbox[i].type = "preset"))
        => rendererPreset[p] = currentPreset[p]

\* The panels that are constructed and not disposed.
LivePanels == {p \in Panels : p <= nPanels /\ ~panelDisposed[p]}

\* C23 (as claimed): one toggle command creates a live panel whenever no
\* live panel exists (none opened yet, toggled off, or closed by the user)
\* and disposes the live panel whenever one exists.
C23_ToggleFollowsLivePanel ==
    [][(ToggleOn \/ ToggleOff) =>
          IF LivePanels = {}
          THEN LivePanels' # {}
          ELSE LivePanels' = {}]_vars

\* C29 (as claimed): when no panel was ever opened or the panel is disposed,
\* a nextPreset or prevPreset command sends no message and changes no
\* preset index.
C29_PresetCommandsNeedLivePanel ==
    [][((NextPresetCommand \/ PrevPresetCommand) /\ visualizationPanel \notin LivePanels) =>
          /\ sent' = <<>>
          /\ currentPreset' = currentPreset]_vars

\* C24: a text-change event whose document is not the active editor's
\* document is ignored: panel p's five scalars, lastActivity and intensity
\* history stay as they are and no 'keystroke' or 'activity' message is sent.
C24_InactiveDocumentIgnored ==
    [][\A p \in Panels :
          (events' = events + 1 /\ subscribed[p] /\ now' = now) =>
              \A changes \in ChangeLists :
                  OnDidChangeTextDocument(p, FALSE, changes) =>
                      /\ activity'[p] = activity[p]
                      /\ activityHistory'[p] = activityHistory[p]
                      /\ sent' = <<>>]_vars

\* The only panel has handled a text change of the active document, and in
\* the same millisecond the host has delivered one more event that sent
\* nothing, raised no focus and disposed nothing: a text change of another
\* document.
C24_Witness ==
    /\ nPanels = 1
    /\ subscribed[1]
    /\ events = 3
    /\ sent = <<>>
    /\ activityHistory[1] # <<>>
    /\ activity[1].lastActivity = now
    /\ activity[1].intensity > 0
    /\ activity[1].focus < Dec(2, 10)

\* C25: a text-change callback of a panel with n change events sends exactly
\* n 'keystroke' messages, the i-th describing the i-th change, followed by
\* exactly one 'activity' message, so no 'activity' message lies between the
\* 'keystroke' messages; the 'activity' message carries the panel's vector
\* as it is after the intensity, chaos and heat updates of this callback.
C25_KeystrokesThenOneActivity ==
    [][\A p \in Panels :
          (MayBeTextChange(p) /\ ~panelDisposed[p]) =>
              \A changes \in ChangeLists :
                  OnDidChangeTextDocument(p, TRUE, changes) =>
                      LET n == Len(changes)
                      IN  /\ Len(sent') = n + 1
                          /\ \A i \in 1 .. n :
                                 /\ sent'[i].panel = p
                                 /\ sent'[i].type = "keystroke"
                                 /\ sent'[i].data.line = changes[i].line
                                 /\ sent'[i].data.character = changes[i].character
                                 /\ sent'[i].data.text = changes[i].textLength
                                 /\ sent'[i].data.rangeLength = changes[i].rangeLength
                          /\ sent'[n + 1] = [panel |-> p, type |-> "activity",
                                             data |-> activity'[p]]]_vars

\* A panel has just sent two 'keystroke' messages for two different changes
\* and then one 'activity' message whose chaos and heat are already raised.
C25_Witness ==
    \E p \in Panels :
        /\ Len(sent) = 3
        /\ sent[1].panel = p
        /\ sent[1].type = "keystroke" /\ sent[2].type = "keystroke"
        /\ sent[1].data # sent[2].data
        /\ sent[3].type = "activity"
        /\ sent[3].data.chaos = Dec(2, 10)
        /\ sent[3].data.heat > 0
        /\ sent[3].data.intensity > 0

\* C26: lastActivity of a panel is the time of its most recent handled
\* text-change callback, or its construction time if there was none: the
\* constructor and every handled text change set it to the current time, no
\* other step changes it, and in particular a step that changes it is no
\* cursor move, no active-editor change and no tick, so a cursor move does
\* not postpone the decay.
C26_LastActivityIsLastTextChange ==
    [][/\ ToggleOn => activity'[nPanels'].lastActivity = now
       /\ \A p \in 1 .. nPanels :
              LET before == activity[p].lastActivity
                  after == activity'[p].lastActivity
              IN  /\ after # before =>
                         /\ after = now
                         /\ \E changes \in ChangeLists :
                                OnDidChangeTextDocument(p, TRUE, changes)
                         /\ \A selection \in Selections :
                                ~OnDidChangeTextEditorSelection(p, selection)
                         /\ ~OnDidChangeActiveTextEditor(p)
                         /\ ~Tick(p)
                  /\ (MayBeTextChange(p) /\ after # now) =>
                         \A changes \in ChangeLists :
                             ~OnDidChangeTextDocument(p, TRUE, changes)]_vars

\* A panel whose last text change is more than DecayAfter old has moved its
\* cursor in this very millisecond, and the tick that followed has decayed
\* chaos all the same.
C26_Witness ==
    \E p \in Panels :
        /\ cursorPositions[p] # <<>>
        /\ cursorPositions[p][Len(cursorPositions[p])].time = now
        /\ now - activity[p].lastActivity > DecayAfter
        /\ nextTick[p] = now + TickInterval
        /\ Len(sent) = 1 /\ sent[1].type = "activity" /\ sent[1].panel = p
        /\ activity[p].chaos > 0
        /\ activity[p].chaos < Dec(1, 10)

\* C27: at any time at most one constructed panel is not disposed, whatever
\* the order of toggle commands, user closes and deactivate.
C27_AtMostOneLivePanel == Cardinality(LivePanels) <= 1

\* A second panel is live after the first one was disposed.
C27_Witness ==
    /\ nPanels = 2
    /\ panelDisposed[1]
    /\ LivePanels = {2}

\* buffer q2 is buffer q after one push of entry x under capacity cap: the
\* entries kept are the newest of q in their old order, x comes last, and
\* only a full q loses an entry, its oldest.
PushedFifo(q, q2, x, cap) ==
    /\ Len(q2) = Min(Len(q) + 1, cap)
    /\ q2[Len(q2)] = x
    /\ \A i \in 1 .. Len(q2) - 1 : q2[i] = q[Len(q) - (Len(q2) - 1) + i]

\* C30: activityHistory never holds more than 20 samples and cursorPositions
\* never more than 10 positions; a text change after a positive elapsed time
\* pushes its chars-per-second sample and a cursor move pushes its position,
\* each at the end, evicting the oldest entry of a full buffer and keeping
\* the others in arrival order; no other step changes the buffers.
C30_HistoryBuffersBounded ==
    /\ [](\A p \in Panels : /\ Len(activityHistory[p]) <= ActivityHistoryCap
                             /\ Len(cursorPositions[p]) <= CursorPositionsCap)
    /\ [][\A p \in 1 .. nPanels :
              LET elapsed == now - activity[p].lastActivity
              IN  /\ IF activity'[p].lastActivity = now /\ elapsed > 0
                     THEN PushedFifo(activityHistory[p], activityHistory'[p],
                                     CharsPerSecond(sent'[1].data.text, elapsed),
                                     ActivityHistoryCap)
                     ELSE activityHistory'[p] = activityHistory[p]
                  /\ IF sent' # <<>> /\ sent'[1].type = "cursor"
                     THEN PushedFifo(cursorPositions[p], cursorPositions'[p],
                                     [x |-> sent'[1].data.character,
                                      y |-> sent'[1].data.line, time |-> now],
                                     CursorPositionsCap)
                     ELSE cursorPositions'[p] = cursorPositions[p]]_vars

\* Both buffers of a panel are full and have evicted entries: the clock has
\* advanced more often than either capacity, the oldest cursor position kept
\* is the tenth newest, and the history holds samples of different changes.
C30_Witness ==
    \E p \in Panels :
        /\ now > ActivityHistoryCap * TypingInterval
        /\ activity[p].lastActivity = now
        /\ Len(activityHistory[p]) = ActivityHistoryCap
        /\ Len(cursorPositions[p]) = CursorPositionsCap
        /\ cursorPositions[p][1].time = now - (CursorPositionsCap - 1) * TypingInterval
        /\ \E i, j \in 1 .. ActivityHistoryCap : activityHistory[p][i] # activityHistory[p][j]
====
